---- MODULE Spec2Model ----
(***************************************************************************)
(* Market-data acquisition and cache layer of market_report_generator:     *)
(* DataFetcher (utils/data_fetcher.py).                                    *)
(*                                                                         *)
(* Python values are modelled as records [t, n, d]: t = "none" is None,    *)
(* t = "str" a non-numeric value, t = "num" the exact rational n/d (d > 0, *)
(* lowest terms).  Floats are modelled by exact rationals.  Time is in     *)
(* milliseconds since construction of the fetcher.                        *)
(***************************************************************************)
EXTENDS Integers, Sequences, FiniteSets, TLC

VARIABLES
    now,         \* value of time.time(), in ms
    cache,       \* DataFetcher.cache: key -> dict
    cache_time,  \* DataFetcher.cache_time: key -> time.time() of the store
    ret,         \* the caller's handle on what the last call returned
    last,        \* what the last call did (observation of the call)
    batch,       \* the running batch_get_stocks call: position, results, log
    input,       \* argument of the function being applied
    output       \* its result

vars == <<now, cache, cache_time, ret, last, batch, input, output>>

(***************************************************************************)
(* Bounds of the model.                                                    *)
(***************************************************************************)
MaxTimeSec == 602     \* the clock stops advancing after this many seconds
MaxLen == 16          \* longest price history
MaxDelta == 2         \* largest day-to-day move of a generated history
BasePrice == 100      \* first close of a generated history
ScoreScale == 2       \* sentiment scores are multiples of 1/ScoreScale
MaxScore == 101       \* largest sentiment score (scores start at -1)
MaxBatch == 3         \* longest ticker list of a batch
BigRise == 154        \* the daily rise after the one-point dip of the steep history

(***************************************************************************)
(* Python values.                                                          *)
(***************************************************************************)
RECURSIVE GCD(_, _)
GCD(a, b) == IF b = 0 THEN a ELSE GCD(b, a % b)

Abs(x) == IF x < 0 THEN -x ELSE x

None == [t |-> "none", n |-> 0, d |-> 1]
Str == [t |-> "str", n |-> 0, d |-> 1]

\* the rational n/d, d # 0, in lowest terms with a positive denominator
Rat(n, d) ==
    LET g == GCD(Abs(n), Abs(d))
        s == IF d < 0 THEN -1 ELSE 1
    IN  [t |-> "num", n |-> s * (n \div g), d |-> s * (d \div g)]

Num(x) == [t |-> "num", n |-> x, d |-> 1]

IsNum(v) == v.t = "num"

RAdd(a, b) == Rat(a.n * b.d + b.n * a.d, a.d * b.d)
RSub(a, b) == Rat(a.n * b.d - b.n * a.d, a.d * b.d)
RMul(a, b) ==
    LET g1 == GCD(Abs(a.n), b.d)
        g2 == GCD(Abs(b.n), a.d)
    IN  Rat((a.n \div g1) * (b.n \div g2), (a.d \div g2) * (b.d \div g1))
\* b # 0
RDiv(a, b) == RMul(a, Rat(b.d, b.n))
RLess(a, b) == a.n * b.d < b.n * a.d

\* Python truth value of a number, a string or None
Truthy(v) == \/ v.t = "str"
             \/ v.t = "num" /\ v.n # 0

\* Python's `a or b`
Or(a, b) == IF Truthy(a) THEN a ELSE b

\* round(x, 1) of a non-negative number: nearest tenth, ties to even
Round1(x) ==
    LET q == (10 * x.n) \div x.d
        r == (10 * x.n) % x.d
        up == \/ 2 * r > x.d
              \/ 2 * r = x.d /\ q % 2 = 1
    IN  Rat(IF up THEN q + 1 ELSE q, 10)

RECURSIVE SumSeq(_)
SumSeq(s) == IF s = <<>> THEN 0 ELSE Head(s) + SumSeq(Tail(s))

Seconds(s) == s * 1000

(***************************************************************************)
(* Indicator calculator.                                                   *)
(***************************************************************************)
period == 14

\* numpy mean of a non-empty integer sequence
Mean(s) == Rat(SumSeq(s), Len(s))

Smooth_seed_only(avg, xs, i) == avg

\* the smoothing loop of _calculate_rsi from index i (1-based) on
RECURSIVE Smooth(_, _, _)
Smooth(avg, xs, i) ==
    IF i > Len(xs) THEN avg
    ELSE LET next == RDiv(RAdd(RMul(avg, Num(period - 1)), Num(xs[i])), Num(period))
         IN  \* a rational's denominator is positive: the test only makes TLC
             \* evaluate this step's average before it goes on to the next
             IF next.d > 0 THEN Smooth(next, xs, i + 1) ELSE None

rsi_insufficient_le(closes) == Len(closes) <= period + 1

rsi_insufficient(closes) == Len(closes) < period + 1

rsi_of_averages_no_loss_0(avg_gain, avg_loss) ==
    IF avg_loss.n = 0 THEN Num(0)
    ELSE Round1(RSub(Num(100),
                     RDiv(Num(100), RAdd(Num(1), RDiv(avg_gain, avg_loss)))))

rsi_of_averages_swapped(avg_gain, avg_loss) ==
    IF avg_gain.n = 0 THEN Num(100)
    ELSE Round1(RSub(Num(100),
                     RDiv(Num(100), RAdd(Num(1), RDiv(avg_loss, avg_gain)))))

rsi_of_averages_plus(avg_gain, avg_loss) ==
    IF avg_loss.n = 0 THEN Num(100)
    ELSE Round1(RAdd(Num(100),
                     RDiv(Num(100), RAdd(Num(1), RDiv(avg_gain, avg_loss)))))

\* lines 255-260: the value returned for the final averages
rsi_of_averages(avg_gain, avg_loss) ==
    IF avg_loss.n = 0 THEN Num(100)
    ELSE Round1(RSub(Num(100),
                     RDiv(Num(100), RAdd(Num(1), RDiv(avg_gain, avg_loss)))))

_calculate_rsi(closes) ==
    IF rsi_insufficient(closes) THEN None
    ELSE
      LET deltas == [i \in 1..(Len(closes) - 1) |-> closes[i + 1] - closes[i]]
          gains == [i \in 1..Len(deltas) |-> IF deltas[i] < 0 THEN 0 ELSE deltas[i]]
          losses == [i \in 1..Len(deltas) |-> IF deltas[i] > 0 THEN 0 ELSE -deltas[i]]
          avg_gain0 == Mean(SubSeq(gains, 1, period))
          avg_loss0 == Mean(SubSeq(losses, 1, period))
          avg_gain == Smooth(avg_gain0, gains, period + 1)
          avg_loss == Smooth(avg_loss0, losses, period + 1)
      IN  rsi_of_averages(avg_gain, avg_loss)

moving_average_gt(closes, w) ==
    IF Len(closes) > w
    THEN Mean(SubSeq(closes, Len(closes) - w + 1, Len(closes)))
    ELSE None

\* hist['Close'].rolling(window=w).mean().iloc[-1] if len(hist) >= w else None
moving_average(closes, w) ==
    IF Len(closes) >= w
    THEN Mean(SubSeq(closes, Len(closes) - w + 1, Len(closes)))
    ELSE None

(***************************************************************************)
(* Cache.                                                                  *)
(***************************************************************************)
cache_duration == 300

EmptyDict == [k \in {} |-> None]

cache_valid_le(ct, t, key) == t - ct[key] <= Seconds(cache_duration)

\* line 23: time.time() - self.cache_time[key] < self.cache_duration
cache_valid(ct, t, key) == t - ct[key] < Seconds(cache_duration)

_get_from_cache(c, ct, t, key) ==
    IF key \in DOMAIN c /\ key \in DOMAIN ct /\ cache_valid(ct, t, key)
    THEN c[key]
    ELSE None

\* del d[key]
DictDel(f, key) == [k \in DOMAIN f \ {key} |-> f[k]]

read_evicts_expired(c, ct, t, key) ==
    IF key \in DOMAIN c /\ key \in DOMAIN ct /\ ~cache_valid(ct, t, key)
    THEN <<DictDel(c, key), DictDel(ct, key)>>
    ELSE <<c, ct>>

read_touches_entry(c, ct, t, key) ==
    IF key \in DOMAIN c /\ key \in DOMAIN ct /\ cache_valid(ct, t, key)
    THEN <<c, [ct EXCEPT ![key] = t]>>
    ELSE <<c, ct>>

\* the pair <<cache, cache_time>> after _get_from_cache: lines 22-25 assign
\* to neither dict
cache_after_read(c, ct, t, key) == <<c, ct>>

\* self.cache[key] = value (a dict assignment: insert or overwrite)
DictSet(f, key, value) ==
    [k \in DOMAIN f \cup {key} |-> IF k = key THEN value ELSE f[k]]

\* _set_cache: the pair <<cache, cache_time>> after the call
_set_cache_value_only(c, ct, t, key, value) ==
    <<DictSet(c, key, value), ct>>

_set_cache_keep_time(c, ct, t, key, value) ==
    <<DictSet(c, key, value), IF key \in DOMAIN ct THEN ct ELSE DictSet(ct, key, t)>>

_set_cache(c, ct, t, key, value) ==
    <<DictSet(c, key, value), DictSet(ct, key, t)>>

\* truth value of a dict or None (the dicts built here are never empty)
DictTruthy(v) == v # None

(***************************************************************************)
(* What a fetch does: the cache after it, the object it returns, whether   *)
(* it contacted the provider, whether an exception left it.  A returned    *)
(* dict is the object held by the cache under `alias` ("" for none).       *)
(***************************************************************************)
Effect(c, ct, val, alias, contacted, raised) ==
    [cache |-> c, cache_time |-> ct, ret |-> [val |-> val, alias |-> alias],
     contacted |-> contacted, raised |-> raised]

ReturnCached_fetch_first(c, ct, key, cached) ==
    Effect(c, ct, cached, key, TRUE, FALSE)

\* `return cached`: the cached object itself, the provider is not contacted
ReturnCached(c, ct, key, cached) == Effect(c, ct, cached, key, FALSE, FALSE)

\* self._set_cache(cache_key, data); return data
StoreAndReturn(c, ct, t, key, data) ==
    LET s == _set_cache(c, ct, t, key, data)
    IN  Effect(s[1], s[2], data, key, TRUE, FALSE)

except_clears_cache(c, ct) == Effect(EmptyDict, EmptyDict, None, "", TRUE, FALSE)

except_reraise(c, ct) == Effect(c, ct, None, "", TRUE, TRUE)

\* except Exception as e: print(...); return None
except_return_none(c, ct) == Effect(c, ct, None, "", TRUE, FALSE)

(***************************************************************************)
(* Quote fetcher.  A provider response is [raises, info, hist]: raises     *)
(* says the provider call throws; info holds the snapshot fields (None     *)
(* when missing); hist is the sequence of daily closes.                    *)
(***************************************************************************)
StockKey(ticker) == "stock_" \o ticker
IndexKey(symbol) == "index_" \o symbol
FearGreedKey == "fear_greed"

\* `current and prev_close and prev_close > 0` and the two assignments under
\* it throw a TypeError when a non-numeric operand reaches `>` or `-`
change_raises(current, prev_close) ==
    /\ Truthy(current)
    /\ Truthy(prev_close)
    /\ \/ prev_close.t = "str"
       \/ prev_close.n > 0 /\ current.t = "str"

has_change_no_sign_check(current, prev_close) ==
    Truthy(current) /\ Truthy(prev_close)

\* lines 65 and 121: current and prev_close and prev_close > 0
has_change(current, prev_close) ==
    Truthy(current) /\ Truthy(prev_close) /\ prev_close.n > 0

\* lines 66 and 122
change_of(current, prev_close) ==
    IF has_change(current, prev_close) THEN RSub(current, prev_close) ELSE None

\* lines 67 and 123
change_pct_of(current, prev_close) ==
    IF has_change(current, prev_close)
    THEN RMul(RDiv(change_of(current, prev_close), prev_close), Num(100))
    ELSE None

\* lines 59-91: the dict of a stock
stock_data(ticker, info, hist, t) ==
    LET current_price == Or(Or(info.currentPrice, info.regularMarketPrice),
                            info.previousClose)
        prev_close == info.previousClose
    IN  [ticker |-> ticker,
         current_price |-> current_price,
         previous_close |-> prev_close,
         change |-> change_of(current_price, prev_close),
         change_pct |-> change_pct_of(current_price, prev_close),
         rsi |-> _calculate_rsi(hist),
         ma20 |-> moving_average(hist, 20),
         ma50 |-> moving_average(hist, 50),
         timestamp |-> t]

stock_raises(info) ==
    change_raises(Or(Or(info.currentPrice, info.regularMarketPrice),
                     info.previousClose),
                  info.previousClose)

get_stock_data(c, ct, t, ticker, resp) ==
    LET cache_key == StockKey(ticker)
        cached == _get_from_cache(c, ct, t, cache_key)
        r == cache_after_read(c, ct, t, cache_key)
    IN  IF DictTruthy(cached) THEN ReturnCached(r[1], r[2], cache_key, cached)
        ELSE IF resp.raises \/ stock_raises(resp.info)
             THEN except_return_none(r[1], r[2])
             ELSE StoreAndReturn(r[1], r[2], t, cache_key,
                                 stock_data(ticker, resp.info, resp.hist, t))

\* lines 116-133: the dict of an index
index_data(symbol, info, t) ==
    LET current == Or(info.regularMarketPrice, info.previousClose)
        prev_close == info.previousClose
    IN  [symbol |-> symbol,
         current |-> current,
         previous_close |-> prev_close,
         change |-> change_of(current, prev_close),
         change_pct |-> change_pct_of(current, prev_close),
         timestamp |-> t]

index_raises(info) ==
    change_raises(Or(info.regularMarketPrice, info.previousClose),
                  info.previousClose)

get_index_data(c, ct, t, symbol, resp) ==
    LET cache_key == IndexKey(symbol)
        cached == _get_from_cache(c, ct, t, cache_key)
        r == cache_after_read(c, ct, t, cache_key)
    IN  IF DictTruthy(cached) THEN ReturnCached(r[1], r[2], cache_key, cached)
        ELSE IF resp.raises \/ index_raises(resp.info)
             THEN except_return_none(r[1], r[2])
             ELSE StoreAndReturn(r[1], r[2], t, cache_key,
                                 index_data(symbol, resp.info, t))

get_vix_own_key(c, ct, t, resp) == get_index_data(c, ct, t, "VIX", resp)

get_vix(c, ct, t, resp) == get_index_data(c, ct, t, "^VIX", resp)

(***************************************************************************)
(* Sentiment fetcher.  A response is [raises, shape, score]: shape is      *)
(* "nested" for {fear_and_greed: {score}}, "flat" for {score}, "other"     *)
(* for a JSON object with neither; score is None when the field is missing.*)
(***************************************************************************)
\* the score thresholds of _interpret_fear_greed
interpret_lt55(score) ==
    IF RLess(score, Num(25)) THEN "extreme_fear"
    ELSE IF RLess(score, Num(45)) THEN "fear"
    ELSE IF RLess(score, Num(55)) THEN "neutral"
    ELSE IF ~RLess(Num(75), score) THEN "greed"
    ELSE "extreme_greed"

\* lines 267-276; the levels stand for the Chinese labels of the source
_interpret_fear_greed(score) ==
    IF RLess(score, Num(25)) THEN "extreme_fear"
    ELSE IF RLess(score, Num(45)) THEN "fear"
    ELSE IF ~RLess(Num(55), score) THEN "neutral"
    ELSE IF ~RLess(Num(75), score) THEN "greed"
    ELSE "extreme_greed"

\* lines 164-168
parsed_score(resp) ==
    IF resp.shape \in {"nested", "flat"} THEN resp.score ELSE None

get_fear_greed_index(c, ct, t, resp) ==
    LET cache_key == FearGreedKey
        cached == _get_from_cache(c, ct, t, cache_key)
        r == cache_after_read(c, ct, t, cache_key)
        score == parsed_score(resp)
    IN  IF DictTruthy(cached) THEN ReturnCached(r[1], r[2], cache_key, cached)
        ELSE IF resp.raises \/ score.t = "str"
             THEN except_return_none(r[1], r[2])
             ELSE IF score # None
                  THEN StoreAndReturn(r[1], r[2], t, cache_key,
                                      [score |-> score,
                                       level |-> _interpret_fear_greed(score),
                                       timestamp |-> t])
                  ELSE Effect(r[1], r[2], None, "", TRUE, FALSE)

(***************************************************************************)
(* The fetcher in use: the watchlist and what the providers may answer.    *)
(***************************************************************************)
Tickers == {"NVDA"}
Symbols == {"^VIX"}

Info(cp, rmp, pc) ==
    [currentPrice |-> cp, regularMarketPrice |-> rmp, previousClose |-> pc]

NoAnswer == [raises |-> TRUE, info |-> Info(None, None, None), hist |-> <<>>]

StockFeed ==
    {NoAnswer}
    \cup {[raises |-> FALSE, info |-> i, hist |-> <<>>] :
            i \in {Info(Num(12), Num(12), Num(10)), Info(None, None, None)}}

IndexFeed ==
    {NoAnswer}
    \cup {[raises |-> FALSE, info |-> i, hist |-> <<>>] :
            i \in {Info(None, Num(18), Num(20)), Info(None, None, None)}}

FearGreedFeed ==
    {[raises |-> TRUE, shape |-> "other", score |-> None]}
    \cup {[raises |-> FALSE, shape |-> sh, score |-> sc] :
            sh \in {"nested", "flat", "other"}, sc \in {Num(25), None, Str}}

\* the clock advances by just under, exactly, or just over the cache lifetime
TickSteps == {Seconds(cache_duration - 1), Seconds(cache_duration),
              Seconds(cache_duration + 1)}

NoResp == [raises |-> FALSE]
NoCall == [op |-> "none", key |-> "", at |-> 0, age |-> -1, resp |-> NoResp,
           contacted |-> FALSE, raised |-> FALSE]
NoRet == [val |-> None, alias |-> ""]

\* the age of the entry under key at time t, -1 when there is none
Age(ct, t, key) == IF key \in DOMAIN ct THEN t - ct[key] ELSE -1

\* a call op(key), answered resp by the provider if it is asked, with effect
\* e takes the fetcher to its next state
Call(op, key, resp, e) ==
    /\ cache' = e.cache
    /\ cache_time' = e.cache_time
    /\ ret' = e.ret
    /\ last' = [op |-> op, key |-> key, at |-> now,
                age |-> Age(cache_time, now, key),
                resp |-> IF e.contacted THEN resp ELSE NoResp,
                contacted |-> e.contacted, raised |-> e.raised]
    /\ UNCHANGED <<now, batch, input, output>>

CallGetStockData ==
    \E ticker \in Tickers, resp \in StockFeed :
        Call("get_stock_data", StockKey(ticker), resp,
             get_stock_data(cache, cache_time, now, ticker, resp))

CallGetIndexData ==
    \E symbol \in Symbols, resp \in IndexFeed :
        Call("get_index_data", IndexKey(symbol), resp,
             get_index_data(cache, cache_time, now, symbol, resp))

CallGetFearGreedIndex ==
    \E resp \in FearGreedFeed :
        Call("get_fear_greed_index", FearGreedKey, resp,
             get_fear_greed_index(cache, cache_time, now, resp))

CallGetVix ==
    \E resp \in IndexFeed :
        Call("get_vix", IndexKey("^VIX"), resp,
             get_vix(cache, cache_time, now, resp))

Tick ==
    \E d \in TickSteps :
        /\ now + d <= Seconds(MaxTimeSec)
        /\ now' = now + d
        /\ UNCHANGED <<cache, cache_time, ret, last, batch, input, output>>

Idle == [pc |-> "idle", tickers |-> <<>>, i |-> 1, results |-> EmptyDict,
         log |-> <<>>]
Pending == [done |-> FALSE, val |-> None]

\* the fetcher after construction: an empty cache
Constructed ==
    /\ now = 0
    /\ cache = EmptyDict
    /\ cache_time = EmptyDict
    /\ ret = NoRet
    /\ last = NoCall
    /\ batch = Idle

Init ==
    /\ Constructed
    /\ input = None
    /\ output = Pending

Next ==
    \/ CallGetStockData
    \/ CallGetIndexData
    \/ CallGetFearGreedIndex
    \/ CallGetVix
    \/ Tick

Spec == Init /\ [][Next]_vars

(***************************************************************************)
(* Properties of the cache and of the single fetches (under Spec).         *)
(***************************************************************************)
GetOps == {"get_stock_data", "get_index_data", "get_fear_greed_index", "get_vix"}

\* C1: a value stored at time T is returned as it is by every get_stock_data,
\* get_index_data or get_fear_greed_index call for its key less than 300s
\* after T, without the provider being asked; a call 300s or more after T
\* misses the cache and contacts the provider again.
C1_CacheLifetime ==
    (last.op \in GetOps /\ last.age >= 0) =>
        IF last.age < Seconds(300)
        THEN /\ ~last.contacted
             /\ ret.val # None
             /\ ret.val = cache[last.key]
             /\ ret.val.timestamp = last.at - last.age
             /\ cache_time[last.key] = last.at - last.age
        ELSE /\ last.contacted
             /\ ret.val # None => ret.val.timestamp = last.at

\* a read 299s after the store that was served from the cache
C1_Witness ==
    /\ last.op = "get_fear_greed_index"
    /\ last.age = Seconds(299)
    /\ ~last.contacted
    /\ ret.val # None

\* the provider's answer makes the fetch fail: the call throws, or a field
\* that must be a number is not one
AnswerFails(op, resp) ==
    \/ resp.raises
    \/ op = "get_stock_data" /\ stock_raises(resp.info)
    \/ op \in {"get_index_data", "get_vix"} /\ index_raises(resp.info)
    \/ op = "get_fear_greed_index" /\ parsed_score(resp).t = "str"

\* C3: get_stock_data, get_index_data and get_fear_greed_index never raise to
\* the caller; when the provider call or the parsing fails they return None.
C3_NeverRaises ==
    last.op \in GetOps =>
        /\ ~last.raised
        /\ (last.contacted /\ AnswerFails(last.op, last.resp)) => ret.val = None

\* a fetch whose provider call threw and that returned None
C3_Witness ==
    /\ last.op = "get_stock_data"
    /\ last.contacted
    /\ last.resp.raises
    /\ ret.val = None
    /\ ~last.raised

\* C4: a get_stock_data or get_index_data call that finds an unexpired entry
\* under its key returns that entry and makes no call to the provider.
C4_HitAsksNoProvider ==
    (/\ last.op \in {"get_stock_data", "get_index_data"}
     /\ last.age >= 0
     /\ last.age < Seconds(cache_duration)) =>
        /\ ~last.contacted
        /\ ret.val = cache[last.key]
        /\ ret.alias = last.key

\* a cache hit of get_index_data
C4_Witness ==
    /\ last.op = "get_index_data"
    /\ last.age >= 0
    /\ last.age < Seconds(cache_duration)
    /\ ret.val # None
    /\ ~last.contacted

(***************************************************************************)
(* The indicator calculator on its own: _calculate_rsi applied to a price  *)
(* history.  The histories are the lists of 0..MaxLen closes that start at *)
(* BasePrice and move by d1 a day and by d2 a day, either d1 for the first *)
(* k days and d2 after ("bend") or in turns ("zigzag"), and the 15-point   *)
(* example history in tenths.                                              *)
(***************************************************************************)
Min(a, b) == IF a < b THEN a ELSE b
Max(a, b) == IF a > b THEN a ELSE b

Bend(n, k, d1, d2) ==
    [i \in 1..n |-> BasePrice + d1 * Min(i - 1, k) + d2 * Max(0, i - 1 - k)]

Zigzag(n, d1, d2) ==
    [i \in 1..n |-> BasePrice + d1 * (i \div 2) + d2 * ((i - 1) \div 2)]

ExampleHist ==
    <<100, 105, 110, 108, 112, 115, 113, 117, 120, 123, 121, 125, 128, 130, 132>>

\* one dip of 1 and then 13 rises of BigRise
SteepHist == Bend(period + 1, 1, -1, BigRise)

Histories ==
    {Bend(n, k, d1, d2) : n \in 0..MaxLen, k \in 0..MaxLen,
                          d1 \in -MaxDelta..MaxDelta, d2 \in -MaxDelta..MaxDelta}
    \cup {Zigzag(n, d1, d2) : n \in 0..MaxLen,
                              d1 \in -MaxDelta..MaxDelta, d2 \in -MaxDelta..MaxDelta}
    \cup {ExampleHist, SteepHist}

InitRsi ==
    /\ Constructed
    /\ input \in Histories
    /\ output = Pending

CalculateRsi ==
    /\ ~output.done
    /\ output' = [done |-> TRUE, val |-> _calculate_rsi(input)]
    /\ UNCHANGED <<now, cache, cache_time, ret, last, batch, input>>

SpecRsi == InitRsi /\ [][CalculateRsi]_vars

NonDecreasing(h) == \A i \in 1..(Len(h) - 1) : h[i] <= h[i + 1]
NonIncreasing(h) == \A i \in 1..(Len(h) - 1) : h[i] >= h[i + 1]
StrictlyDecreasing(h) == \A i \in 1..(Len(h) - 1) : h[i] > h[i + 1]
StrictlyIncreasing(h) == \A i \in 1..(Len(h) - 1) : h[i] < h[i + 1]

\* C6: _calculate_rsi returns None for every history of fewer than 15 points
\* and a number for every history of at least 15 closes.
C6_RsiNeeds15Points ==
    output.done =>
        /\ Len(input) < 15 => output.val = None
        /\ Len(input) >= 15 => IsNum(output.val)

\* the 15-point example history has an RSI
C6_Witness ==
    /\ output.done
    /\ input = ExampleHist
    /\ IsNum(output.val)

\* C7: for every monotonically increasing history of at least 15 points
\* _calculate_rsi returns 100.
C7_IncreasingGives100 ==
    (output.done /\ Len(input) >= 15 /\ NonDecreasing(input)) =>
        output.val = Num(100)

\* a strictly increasing history long enough for the smoothing loop to run
C7_Witness ==
    /\ output.done
    /\ Len(input) >= 16
    /\ StrictlyIncreasing(input)
    /\ output.val = Num(100)

Scores == {Rat(k, ScoreScale) : k \in (-ScoreScale)..(MaxScore * ScoreScale)}

InitFearGreed ==
    /\ Constructed
    /\ input \in Scores
    /\ output = Pending

InterpretFearGreed ==
    /\ ~output.done
    /\ output' = [done |-> TRUE, val |-> _interpret_fear_greed(input)]
    /\ UNCHANGED <<now, cache, cache_time, ret, last, batch, input>>

SpecFearGreed == InitFearGreed /\ [][InterpretFearGreed]_vars

RLeq(a, b) == ~RLess(b, a)

\* the level the thresholds 25, 45, 55, 75 give a score
Buckets(score) ==
    {<<"extreme_fear", RLess(score, Num(25))>>,
     <<"fear", RLeq(Num(25), score) /\ RLess(score, Num(45))>>,
     <<"neutral", RLeq(Num(45), score) /\ RLeq(score, Num(55))>>,
     <<"greed", RLess(Num(55), score) /\ RLeq(score, Num(75))>>,
     <<"extreme_greed", RLess(Num(75), score)>>}

\* C9: _interpret_fear_greed maps score < 25 to extreme fear, 25 <= score < 45
\* to fear, 45 <= score <= 55 to neutral, 55 < score <= 75 to greed and
\* score > 75 to extreme greed; every score is in exactly one bucket.
C9_FearGreedBuckets ==
    output.done =>
        /\ <<output.val, TRUE>> \in Buckets(input)
        /\ Cardinality({b \in Buckets(input) : b[2]}) = 1

\* the boundary score 55 is neutral
C9_Witness ==
    /\ output.done
    /\ input = Num(55)
    /\ output.val = "neutral"

(***************************************************************************)
(* The quote fetcher on its own: the provider answers `input` to every     *)
(* call of a fresh fetcher, for every combination of snapshot fields.      *)
(***************************************************************************)
PriceVals == {None, Str, Num(0), Num(-2), Num(3), Rat(7, 2)}

\* histories rising by 1 a day, of the lengths around the three windows
QuoteHists == {Bend(n, 0, 0, 1) : n \in {0, 14, 15, 19, 20, 49, 50}}

QuoteAnswers ==
    {[raises |-> FALSE, info |-> Info(cp, rmp, pc), hist |-> h] :
        cp \in PriceVals, rmp \in PriceVals, pc \in PriceVals, h \in QuoteHists}

InitQuote ==
    /\ Constructed
    /\ input \in QuoteAnswers
    /\ output = Pending

QuoteGetStockData ==
    \E ticker \in Tickers :
        Call("get_stock_data", StockKey(ticker), input,
             get_stock_data(cache, cache_time, now, ticker, input))

QuoteGetIndexData ==
    \E symbol \in Symbols :
        Call("get_index_data", IndexKey(symbol), input,
             get_index_data(cache, cache_time, now, symbol, input))

NextQuote == QuoteGetStockData \/ QuoteGetIndexData

SpecQuote == InitQuote /\ [][NextQuote]_vars

\* the current price field of a Quote: current_price of a stock, current of
\* an index
CurrentOf(q) == IF "current_price" \in DOMAIN q THEN q.current_price ELSE q.current

\* C5: in every Quote of get_stock_data or get_index_data, change and
\* change_pct are None when previous_close is None, zero or negative, and
\* otherwise change_pct = (current - previous_close) / previous_close * 100
\* for the Quote's own current price.
C5_ChangePct ==
    \A key \in DOMAIN cache :
        LET q == cache[key]
            pc == q.previous_close
        IN  IF IsNum(pc) /\ pc.n > 0
            THEN /\ IsNum(CurrentOf(q))
                 /\ q.change = RSub(CurrentOf(q), pc)
                 /\ q.change_pct = RMul(RDiv(RSub(CurrentOf(q), pc), pc), Num(100))
            ELSE /\ pc = None \/ (IsNum(pc) /\ pc.n <= 0)
                 /\ q.change = None
                 /\ q.change_pct = None

\* a stock Quote with previous close 3 and price 7/2: change_pct is 50/3
C5_Witness ==
    /\ StockKey("NVDA") \in DOMAIN cache
    /\ ret.alias = StockKey("NVDA")
    /\ ret.val.previous_close = Num(3)
    /\ ret.val.current_price = Rat(7, 2)
    /\ ret.val.change_pct = Rat(50, 3)

(***************************************************************************)
(* The batch orchestrator: one batch_get_stocks call on a fresh fetcher,   *)
(* one loop iteration per step.  The log has one entry per get_stock_data  *)
(* call the loop made.                                                     *)
(***************************************************************************)
BatchTickers == {"NVDA", "AMD", "MSFT"}

RECURSIVE SeqsUpTo(_, _)
SeqsUpTo(S, n) ==
    IF n = 0 THEN {<<>>}
    ELSE LET shorter == SeqsUpTo(S, n - 1)
         IN  shorter \cup {Append(q, x) : q \in shorter, x \in S}

\* time.sleep(0.2), in ms
sleep_ms == 200

\* results = {}; the loop starts at the first ticker
BatchCall ==
    /\ batch.pc = "idle"
    /\ \E tickers \in SeqsUpTo(BatchTickers, MaxBatch) :
           batch' = [pc |-> "loop", tickers |-> tickers, i |-> 1,
                     results |-> EmptyDict, log |-> <<>>]
    /\ UNCHANGED <<now, cache, cache_time, ret, last, input, output>>

batch_iteration_abort(b, ticker, e) ==
    IF e.raised THEN [b EXCEPT !.pc = "raised"]
    ELSE IF DictTruthy(e.ret.val)
         THEN [b EXCEPT !.results = DictSet(b.results, ticker, e.ret.val),
                        !.i = b.i + 1]
         ELSE [b EXCEPT !.pc = "done"]

batch_iteration_retry(b, ticker, e) ==
    IF e.raised THEN [b EXCEPT !.pc = "raised"]
    ELSE IF DictTruthy(e.ret.val)
         THEN [b EXCEPT !.results = DictSet(b.results, ticker, e.ret.val),
                        !.i = b.i + 1]
         ELSE b

\* lines 201-203: data = self.get_stock_data(ticker); if data: results[ticker]
\* = data.  An exception leaving get_stock_data would leave the batch too.
batch_iteration(b, ticker, e) ==
    IF e.raised THEN [b EXCEPT !.pc = "raised"]
    ELSE IF DictTruthy(e.ret.val)
         THEN [b EXCEPT !.results = DictSet(b.results, ticker, e.ret.val),
                        !.i = b.i + 1]
         ELSE [b EXCEPT !.i = b.i + 1]

\* one iteration of the loop, with its sleep
BatchFetch ==
    /\ batch.pc = "loop"
    /\ batch.i <= Len(batch.tickers)
    /\ \E resp \in StockFeed :
         LET ticker == batch.tickers[batch.i]
             e == get_stock_data(cache, cache_time, now, ticker, resp)
             entry == [ticker |-> ticker, at |-> now,
                       contacted |-> e.contacted,
                       failed |-> e.contacted /\ resp.raises,
                       ok |-> DictTruthy(e.ret.val)]
         IN  /\ cache' = e.cache
             /\ cache_time' = e.cache_time
             /\ batch' = [batch_iteration(batch, ticker, e)
                            EXCEPT !.log = Append(batch.log, entry)]
             /\ now' = now + sleep_ms
    /\ UNCHANGED <<ret, last, input, output>>

\* return results
BatchReturn ==
    /\ batch.pc = "loop"
    /\ batch.i > Len(batch.tickers)
    /\ batch' = [batch EXCEPT !.pc = "done"]
    /\ ret' = [val |-> batch.results, alias |-> ""]
    /\ UNCHANGED <<now, cache, cache_time, last, input, output>>

NextBatch == BatchCall \/ BatchFetch \/ BatchReturn

SpecBatch == Init /\ [][NextBatch]_vars

\* C2: batch_get_stocks never raises; it returns a mapping whose keys are
\* exactly the symbols for which a fetch succeeded, each with its Quote, and
\* a symbol whose provider call fails does not keep the symbols after it from
\* being fetched (every list element is attempted).
C2_BatchPartialResults ==
    /\ batch.pc # "raised"
    /\ batch.pc = "done" =>
        /\ Len(batch.log) = Len(batch.tickers)
        /\ \A i \in 1..Len(batch.tickers) : batch.log[i].ticker = batch.tickers[i]
        /\ \A i \in 1..Len(batch.log) : batch.log[i].failed => ~batch.log[i].ok
        /\ DOMAIN ret.val = {batch.log[i].ticker : i \in {j \in 1..Len(batch.log) : batch.log[j].ok}}
        /\ \A t \in DOMAIN ret.val : ret.val[t] = cache[StockKey(t)]

\* the batch [NVDA, AMD, MSFT] with AMD's provider call failing returned
\* NVDA and MSFT
C2_Witness ==
    /\ batch.pc = "done"
    /\ batch.tickers = <<"NVDA", "AMD", "MSFT">>
    /\ batch.log[2].failed
    /\ DOMAIN ret.val = {"NVDA", "MSFT"}

(***************************************************************************)
(* The fetcher with a caller that writes into the dict it was handed.      *)
(***************************************************************************)
\* d[field] = value on a dict d that a fetch returned
DictWrite(dict, value) ==
    IF "score" \in DOMAIN dict THEN [dict EXCEPT !.score = value]
    ELSE [dict EXCEPT !.change_pct = value]

\* the returned dict is the object the cache holds under ret.alias: the
\* write shows through both names
CallerModify ==
    /\ ret.alias # ""
    /\ \E value \in {Num(0)} :
         /\ DictWrite(ret.val, value) # ret.val
         /\ ret' = [ret EXCEPT !.val = DictWrite(ret.val, value)]
         /\ cache' = [cache EXCEPT ![ret.alias] = DictWrite(ret.val, value)]
    /\ UNCHANGED <<now, cache_time, last, batch, input, output>>

NextCaller == Next \/ CallerModify

SpecCaller == Init /\ [][NextCaller]_vars

\* C10: the cache owns its values; what a cache hit returns is the value the
\* fetch stored, whatever a caller did to a dict it was handed: the dict
\* cached under a key changes only when a fetch stores a new one.
C10_CacheOwnsValues ==
    [][\A key \in DOMAIN cache :
          (key \in DOMAIN cache_time' /\ cache_time'[key] = cache_time[key])
              => cache'[key] = cache[key]]_vars

(***************************************************************************)
(* Further properties of the cache and of the single fetches (under Spec). *)
(***************************************************************************)
\* the provider answered, and the answer has no current price and no
\* previous close
MissingFields(op, resp) ==
    /\ ~resp.raises
    /\ resp.info.previousClose = None
    /\ resp.info.regularMarketPrice = None
    /\ op = "get_stock_data" => resp.info.currentPrice = None

\* the step is a call of the fetcher (a call that changes nothing it
\* observes is a stuttering step)
CallStep == last' # last /\ last'.op \in GetOps

\* C11: when the provider's answer lacks the current price and the previous
\* close, get_stock_data and get_index_data return None and store nothing.
C11_MalformedGivesNone ==
    (/\ last.op \in {"get_stock_data", "get_index_data"}
     /\ last.contacted
     /\ MissingFields(last.op, last.resp)) =>
        /\ ret.val = None
        /\ last.key \in DOMAIN cache_time => cache_time[last.key] # last.at

\* C12: a cache read modifies neither cache nor cache_time: a call served
\* from the cache leaves both as they were, and an entry, expired or not,
\* stays in place with its value and its time until a fetch stores a new
\* value under its key.
C12_ReadLeavesCache ==
    [][CallStep =>
        /\ ~last'.contacted => (cache' = cache /\ cache_time' = cache_time)
        /\ \A key \in DOMAIN cache :
             /\ key \in DOMAIN cache'
             /\ key \in DOMAIN cache_time'
             /\ \/ cache'[key] = cache[key] /\ cache_time'[key] = cache_time[key]
                \/ /\ last'.key = key
                   /\ last'.contacted
                   /\ ret'.val # None
                   /\ cache'[key] = ret'.val]_vars

\* a fetch that found an expired entry, failed, and left the entry in place
C12_Witness ==
    /\ last.op = "get_stock_data"
    /\ last.age >= Seconds(cache_duration)
    /\ ret.val = None
    /\ last.key \in DOMAIN cache
    /\ cache_time[last.key] = last.at - last.age

(***************************************************************************)
(* Further properties of the batch orchestrator (under SpecBatch).         *)
(***************************************************************************)
\* C13: within one batch_get_stocks call the symbols are fetched one at a
\* time in input order, each list element gets at most one fetch attempt (a
\* failed symbol is not retried), and 200ms pass between consecutive fetches.
C13_BatchSequential ==
    batch.pc # "idle" =>
        /\ Len(batch.log) <= Len(batch.tickers)
        /\ batch.pc = "loop" => Len(batch.log) = batch.i - 1
        /\ batch.pc = "done" => Len(batch.log) = Len(batch.tickers)
        /\ \A i \in 1..Len(batch.log) : batch.log[i].ticker = batch.tickers[i]
        /\ \A i \in 1..(Len(batch.log) - 1) :
               batch.log[i + 1].at - batch.log[i].at = 200

\* a finished batch of three in which the first fetch failed
C13_Witness ==
    /\ batch.pc = "done"
    /\ Len(batch.tickers) = 3
    /\ batch.log[1].failed
    /\ batch.log[3].at = 400

(***************************************************************************)
(* Further properties of the quote fetcher (under SpecQuote).              *)
(***************************************************************************)
\* the mean of the last w entries of h, Len(h) >= w
MeanOfLast(h, w) ==
    Rat(SumSeq([i \in 1..w |-> h[Len(h) - w + i]]), w)

\* C14: a short history does not fail the fetch: unless the snapshot fields
\* make it fail, get_stock_data returns and caches a Quote for a history of
\* n closes, with rsi None when n < 15, ma20 None when n < 20 and else the
\* mean of the last 20 closes, ma50 None when n < 50 and else the mean of the
\* last 50 closes; a Quote of get_index_data has no rsi, ma20 or ma50.
C14_ShortHistory ==
    /\ (last.op = "get_stock_data" /\ last.contacted
          /\ ~AnswerFails(last.op, last.resp)) =>
           /\ ret.val # None
           /\ last.key \in DOMAIN cache
           /\ cache[last.key] = ret.val
    /\ \A ticker \in Tickers :
         StockKey(ticker) \in DOMAIN cache =>
           LET q == cache[StockKey(ticker)]
               n == Len(input.hist)
           IN  /\ n < 15 => q.rsi = None
               /\ n >= 15 => IsNum(q.rsi)
               /\ q.ma20 = IF n < 20 THEN None ELSE MeanOfLast(input.hist, 20)
               /\ q.ma50 = IF n < 50 THEN None ELSE MeanOfLast(input.hist, 50)
    /\ \A symbol \in Symbols :
         IndexKey(symbol) \in DOMAIN cache =>
           {"rsi", "ma20", "ma50"} \cap DOMAIN cache[IndexKey(symbol)] = {}

\* a stock Quote from 20 closes: rsi and ma20 present, ma50 None
C14_Witness ==
    /\ Len(input.hist) = 20
    /\ StockKey("NVDA") \in DOMAIN cache
    /\ IsNum(cache[StockKey("NVDA")].rsi)
    /\ cache[StockKey("NVDA")].ma20 = Rat(219, 2)
    /\ cache[StockKey("NVDA")].ma50 = None

(***************************************************************************)
(* Further properties of the indicator calculator (under SpecRsi).         *)
(***************************************************************************)
\* C15: whenever _calculate_rsi returns a value for a history of at least 15
\* non-negative closes, the value lies in the closed interval [0, 100].
C15_RsiInRange ==
    (/\ output.done
     /\ Len(input) >= 15
     /\ \A i \in 1..Len(input) : input[i] >= 0
     /\ output.val # None) =>
        /\ IsNum(output.val)
        /\ RLeq(Num(0), output.val)
        /\ RLeq(output.val, Num(100))

\* a history with gains and losses, whose RSI is strictly inside the interval
C15_Witness ==
    /\ output.done
    /\ Len(input) >= 16
    /\ input # ExampleHist
    /\ IsNum(output.val)
    /\ RLess(Num(0), output.val)
    /\ RLess(output.val, Num(50))

DeltaOf(h, i) == h[i + 1] - h[i]
HasNegativeDelta(h) == \E i \in 1..(Len(h) - 1) : DeltaOf(h, i) < 0
GainOf(h, i) == Max(DeltaOf(h, i), 0)
LossOf(h, i) == Max(-DeltaOf(h, i), 0)

\* 14^(i - 13) times the average after delta i, for the averages seeded by
\* the mean of the first 14 values x(1..14) and smoothed as
\* avg = (avg * 13 + x(i)) / 14 for each later one
RECURSIVE WeightedGain(_, _)
WeightedGain(h, i) ==
    IF i = 14 THEN SumSeq([j \in 1..14 |-> GainOf(h, j)])
    ELSE 13 * WeightedGain(h, i - 1) + 14 ^ (i - 14) * GainOf(h, i)

RECURSIVE WeightedLoss(_, _)
WeightedLoss(h, i) ==
    IF i = 14 THEN SumSeq([j \in 1..14 |-> LossOf(h, j)])
    ELSE 13 * WeightedLoss(h, i - 1) + 14 ^ (i - 14) * LossOf(h, i)

\* 100 - 100 / (1 + avg_gain / avg_loss) for a history with a negative delta:
\* the common factor of the two averages cancels
ExactRsi(h) ==
    LET g == WeightedGain(h, Len(h) - 1)
        l == WeightedLoss(h, Len(h) - 1)
    IN  Rat(100 * g, g + l)

\* C18 as stated: for a history of at least 15 closes _calculate_rsi returns
\* exactly 100 if and only if no delta is negative, and otherwise returns
\* 100 - 100 / (1 + avg_gain / avg_loss) for the seeded and smoothed averages.
C18_Original ==
    (output.done /\ Len(input) >= 15) =>
        /\ output.val = Num(100) <=> ~HasNegativeDelta(input)
        /\ HasNegativeDelta(input) => output.val = ExactRsi(input)

\* C18 (amended): for a history of at least 15 closes _calculate_rsi returns
\* 100 when no delta is negative (a flat series included), and otherwise
\* 100 - 100 / (1 + avg_gain / avg_loss), for the seeded and smoothed
\* averages, rounded to one decimal: a multiple of 0.1 at most 0.05 away,
\* which is again 100 when the exact value is 99.95 or more.
C18_RoundedRsi ==
    (output.done /\ Len(input) >= 15) =>
        IF ~HasNegativeDelta(input)
        THEN output.val = Num(100)
        ELSE /\ IsNum(output.val)
             /\ 10 % output.val.d = 0
             /\ RLeq(RSub(output.val, ExactRsi(input)), Rat(1, 20))
             /\ RLeq(RSub(ExactRsi(input), output.val), Rat(1, 20))
             /\ output.val = Num(100) <=> RLeq(Rat(1999, 20), ExactRsi(input))

\* a history with a negative delta whose RSI rounds to 100
C18_Witness ==
    /\ output.done
    /\ input = SteepHist
    /\ HasNegativeDelta(input)
    /\ output.val = Num(100)

(***************************************************************************)
(* Further properties of the cache (under Spec).                           *)
(***************************************************************************)
QuoteOps == {"get_stock_data", "get_index_data", "get_vix"}

\* the entry under key is served at time t
Served(c, ct, t, key) ==
    key \in DOMAIN c /\ key \in DOMAIN ct /\ t - ct[key] < Seconds(300)

\* C16: once an entry has expired, the next successful fetch for its symbol
\* builds a Quote from the provider's new answer, stamped with the time of the
\* fetch, puts it in the place of the old entry and restarts the 300s window
\* from the time of the fetch; a read served from the cache returns the entry
\* of the latest store, stamped with the time of that store, and leaves it as
\* it is.
C16_Superseded ==
    [][CallStep =>
        /\ (/\ last'.op \in QuoteOps
            /\ last'.age >= Seconds(300)
            /\ ret'.val # None) =>
               /\ last'.contacted
               /\ ret'.val.previous_close = last'.resp.info.previousClose
               /\ CurrentOf(ret'.val).t # "none" =>
                    CurrentOf(ret'.val) \in
                        {last'.resp.info.currentPrice,
                         last'.resp.info.regularMarketPrice,
                         last'.resp.info.previousClose}
               /\ ret'.val.timestamp = now
               /\ ret'.val # cache[last'.key]
               /\ cache'[last'.key] = ret'.val
               /\ cache_time'[last'.key] = now
               /\ \A t \in {now, now + 1, now + Seconds(300) - 1} :
                    _get_from_cache(cache', cache_time', t, last'.key) = ret'.val
        /\ (last'.op \in QuoteOps /\ ~last'.contacted) =>
               /\ ret'.val = cache[last'.key]
               /\ ret'.val.timestamp = cache_time[last'.key]
               /\ cache' = cache
               /\ cache_time' = cache_time
        /\ \A key \in DOMAIN cache' :
               cache'[key].timestamp = cache_time'[key]]_vars

\* a stock Quote fetched 301s after the one it replaced
C16_Witness ==
    /\ last.op = "get_stock_data"
    /\ last.age = Seconds(301)
    /\ last.contacted
    /\ ret.val # None
    /\ ret.val.current_price = Num(12)
    /\ cache[last.key] = ret.val
    /\ cache_time[last.key] = last.at
    /\ last.at > 0

\* C19: when get_stock_data, get_index_data or get_fear_greed_index returns
\* None after asking the provider, cache and cache_time are as before the
\* call, the entry under the key is still not served (then or later), and a
\* call for the same key that follows directly asks the provider again.
C19_FailureLeavesCache ==
    [][CallStep =>
        /\ (last'.contacted /\ ret'.val = None) =>
               /\ cache' = cache
               /\ cache_time' = cache_time
               /\ \A t \in {now, now + 1, now + Seconds(300)} :
                    ~Served(cache', cache_time', t, last'.key)
        /\ (/\ last.op \in GetOps
            /\ last.contacted
            /\ ret.val = None
            /\ last'.key = last.key) => last'.contacted]_vars

\* a failed index fetch over an expired entry that is still in the cache
C19_Witness ==
    /\ last.op = "get_index_data"
    /\ last.contacted
    /\ last.resp.raises
    /\ ret.val = None
    /\ last.age >= Seconds(300)
    /\ last.key \in DOMAIN cache
    /\ cache[last.key].current = Num(18)
    /\ cache_time[last.key] = last.at - last.age

\* C20: a stored timestamp changes only when a fetch for its key succeeds,
\* 300s or more after the store, and then becomes the time of that fetch; a
\* call served from the cache leaves every timestamp as it is, and a call for
\* a key whose entry was stored 300s or more ago is not served from the cache.
C20_ExpiryFromStore ==
    [][CallStep =>
        /\ \A key \in DOMAIN cache_time :
             /\ key \in DOMAIN cache_time'
             /\ cache_time'[key] # cache_time[key] =>
                  /\ last'.key = key
                  /\ last'.contacted
                  /\ ret'.val # None
                  /\ cache_time'[key] = now
                  /\ now - cache_time[key] >= Seconds(300)
        /\ ~last'.contacted =>
             /\ cache_time' = cache_time
             /\ now - cache_time[last'.key] < Seconds(300)
        /\ (/\ last'.key \in DOMAIN cache_time
            /\ now - cache_time[last'.key] >= Seconds(300)) => last'.contacted]_vars

\* a second read in a row served from the cache, 299s after the store
C20_Witness ==
    /\ last.op = "get_vix"
    /\ ~last.contacted
    /\ last.age = Seconds(299)
    /\ cache_time[last.key] = last.at - Seconds(299)
    /\ ret.val = cache[last.key]

(***************************************************************************)
(* The program run: main() of main.py.  `input` is the parsed command line *)
(* and what the run meets ([no_save, mock, output, weekend, answer]: the   *)
(* three options, whether today is a weekend day, and what the user types  *)
(* at the weekend prompt, "eof" for a closed stdin).  `output.val` is the  *)
(* run so far: pc its position, i the position in the ticker list of the   *)
(* running batch, mock the value of args.mock, the locals of               *)
(* generate_report (market_data, ai_data, power_data, fear_greed, vix),    *)
(* index_at and vix_at the times of the two calls for ^VIX (-1 before),    *)
(* vix_contacted whether get_vix asked the provider, waited whether the    *)
(* provider has been slow, generated whether generate_report has returned, *)
(* printed whether the report text was printed, saves the number of        *)
(* save_report calls, files the report files written, error the exception  *)
(* that ended the run ("" for none), code the exit status (-1 while        *)
(* running).  The fetcher is the module-level one, constructed at import;  *)
(* generate_report is one step per fetcher call, on the watchlists below.  *)
(***************************************************************************)
MainIndices == <<"^VIX">>
MainAiStocks == <<"NVDA", "MSFT">>
MainPowerStocks == <<"CEG">>

\* what the quote provider may answer during a run: as StockFeed, and a
\* snapshot with a price but no previous close
MainStockFeed ==
    StockFeed
    \cup {[raises |-> FALSE, info |-> Info(Num(12), Num(12), None), hist |-> <<>>]}

MainArgs ==
    [no_save : BOOLEAN, mock : BOOLEAN, output : {None, Str},
     weekend : BOOLEAN, answer : {"", "n", "eof"}]

Started ==
    [pc |-> "start", i |-> 1, mock |-> FALSE,
     market_data |-> EmptyDict, ai_data |-> EmptyDict, power_data |-> EmptyDict,
     fear_greed |-> None, vix |-> None,
     index_at |-> -1, vix_at |-> -1, vix_contacted |-> FALSE, waited |-> FALSE,
     generated |-> FALSE, printed |-> FALSE,
     saves |-> 0, files |-> {}, error |-> "", code |-> -1]

InitMain ==
    /\ Constructed
    /\ input \in MainArgs
    /\ output = [done |-> FALSE, val |-> Started]

Running(pc) == ~output.done /\ output.val.pc = pc

\* the run goes on at pc with the fields of m
Goto(m, pc) == output' = [done |-> FALSE, val |-> [m EXCEPT !.pc = pc]]

\* sys.exit(code), or the end of main (code 0), or an uncaught exception
Exit(m, error, code) ==
    output' = [done |-> TRUE,
               val |-> [m EXCEPT !.pc = "exit", !.error = error, !.code = code]]

should_save_always(args) == TRUE

\* line 109: if args.no_save: print ... else: save_report
should_save(args) == ~args.no_save

\* save_report lines 482-486: the path of the report file
save_path(filename) ==
    IF filename = None THEN "reports/daily_report_YYYYMMDD.md"
    ELSE "reports/custom.md"

\* _build_ai_section lines 248-250: max and min of ai_data.items() by
\* change_pct.  With two items or more the keys are compared with > and <,
\* and a key that is None makes the comparison raise TypeError.
section_raises(ai_data) ==
    /\ Cardinality(DOMAIN ai_data) >= 2
    /\ \E ticker \in DOMAIN ai_data : ai_data[ticker].change_pct = None

\* lines 72-80: parse_arguments, the banner, the weekend test
MainStart ==
    /\ Running("start")
    /\ LET m == [output.val EXCEPT !.mock = input.mock]
       IN  IF input.weekend /\ ~input.mock
           THEN Goto(m, "prompt")
           ELSE Goto(m, "market")
    /\ UNCHANGED <<now, cache, cache_time, ret, last, batch, input>>

\* lines 85-89: input(), outside the try block
MainPrompt ==
    /\ Running("prompt")
    /\ IF input.answer = "eof"
       THEN Exit(output.val, "EOFError", 1)
       ELSE Goto([output.val EXCEPT !.mock = (input.answer = "n")], "market")
    /\ UNCHANGED <<now, cache, cache_time, ret, last, batch, input>>

\* generate_report -> _get_market_data: get_index_data for the indices; a
\* truthy result goes into market_data
MainMarket ==
    /\ Running("market")
    /\ \E resp \in IndexFeed :
         LET symbol == MainIndices[1]
             e == get_index_data(cache, cache_time, now, symbol, resp)
             m == output.val
         IN  /\ cache' = e.cache
             /\ cache_time' = e.cache_time
             /\ Goto([m EXCEPT
                        !.market_data = IF DictTruthy(e.ret.val)
                                        THEN DictSet(@, symbol, e.ret.val) ELSE @,
                        !.index_at = now],
                     "ai")
    /\ UNCHANGED <<now, ret, last, batch, input>>

\* generate_report -> _get_sector_data -> batch_get_stocks, for the AI
\* stocks and then for the power stocks: one loop iteration, with its sleep
MainSector ==
    /\ \/ Running("ai")
       \/ Running("power")
    /\ \E resp \in MainStockFeed :
         LET m == output.val
             ai == m.pc = "ai"
             tickers == IF ai THEN MainAiStocks ELSE MainPowerStocks
             ticker == tickers[m.i]
             e == get_stock_data(cache, cache_time, now, ticker, resp)
             results == IF ai THEN m.ai_data ELSE m.power_data
             after == IF DictTruthy(e.ret.val)
                      THEN DictSet(results, ticker, e.ret.val) ELSE results
             more == m.i < Len(tickers)
         IN  /\ cache' = e.cache
             /\ cache_time' = e.cache_time
             /\ Goto([m EXCEPT
                        !.ai_data = IF ai THEN after ELSE @,
                        !.power_data = IF ai THEN @ ELSE after,
                        !.i = IF more THEN @ + 1 ELSE 1],
                     IF more THEN m.pc ELSE IF ai THEN "power" ELSE "sentiment")
    /\ now' = now + sleep_ms
    /\ UNCHANGED <<ret, last, batch, input>>

\* the provider calls of the batches take time: once in a run, they are as
\* slow as the cache lifetime, or 1s less or more
MainDelay ==
    /\ Running("power")
    /\ ~output.val.waited
    /\ \E d \in TickSteps : now' = now + d
    /\ Goto([output.val EXCEPT !.waited = TRUE], output.val.pc)
    /\ UNCHANGED <<cache, cache_time, ret, last, batch, input>>

\* generate_report line 45: get_fear_greed_index
MainSentiment ==
    /\ Running("sentiment")
    /\ \E resp \in FearGreedFeed :
         LET e == get_fear_greed_index(cache, cache_time, now, resp)
         IN  /\ cache' = e.cache
             /\ cache_time' = e.cache_time
             /\ Goto([output.val EXCEPT !.fear_greed = e.ret.val], "vix")
    /\ UNCHANGED <<now, ret, last, batch, input>>

\* generate_report line 46: get_vix
MainVix ==
    /\ Running("vix")
    /\ \E resp \in IndexFeed :
         LET e == get_vix(cache, cache_time, now, resp)
         IN  /\ cache' = e.cache
             /\ cache_time' = e.cache_time
             /\ Goto([output.val EXCEPT !.vix = e.ret.val,
                                        !.vix_at = now,
                                        !.vix_contacted = e.contacted],
                     "build")
    /\ UNCHANGED <<now, ret, last, batch, input>>

\* generate_report lines 48-66: fetch_all_news catches its exceptions;
\* _build_report returns the report unless a section raises, which leaves
\* generate_report and is caught by `except Exception` (main.py:125-130)
MainBuild ==
    /\ Running("build")
    /\ IF section_raises(output.val.ai_data)
       THEN Exit(output.val, "TypeError", 1)
       ELSE Goto([output.val EXCEPT !.generated = TRUE], "report")
    /\ UNCHANGED <<now, cache, cache_time, ret, last, batch, input>>

\* lines 109-120: print the report, or save it (save_report may raise)
MainReport ==
    /\ Running("report")
    /\ IF should_save(input)
       THEN \E written \in BOOLEAN :
              Exit([output.val EXCEPT
                        !.saves = @ + 1,
                        !.files = IF written THEN {save_path(input.output)} ELSE {}],
                   IF written THEN "" ELSE "OSError",
                   IF written THEN 0 ELSE 1)
       ELSE Exit([output.val EXCEPT !.printed = TRUE], "", 0)
    /\ UNCHANGED <<now, cache, cache_time, ret, last, batch, input>>

\* lines 121-124: Ctrl-C inside the try block
MainInterrupt ==
    /\ ~output.done
    /\ output.val.pc \in {"market", "ai", "power", "sentiment", "vix", "build",
                          "report"}
    /\ Exit(output.val, "KeyboardInterrupt", 1)
    /\ UNCHANGED <<now, cache, cache_time, ret, last, batch, input>>

NextMain ==
    \/ MainStart
    \/ MainPrompt
    \/ MainMarket
    \/ MainSector
    \/ MainDelay
    \/ MainSentiment
    \/ MainVix
    \/ MainBuild
    \/ MainReport
    \/ MainInterrupt

SpecMain == InitMain /\ [][NextMain]_vars

\* C17: in a run with --no-save, save_report is never called and no report
\* file is written, and the generated report is printed; in a run without
\* --no-save, save_report is called exactly once after generate_report has
\* returned and not at all otherwise, and the report is not printed.
C17_NoSave ==
    LET m == output.val
    IN  /\ input.no_save =>
            /\ m.saves = 0
            /\ m.files = {}
            /\ (output.done /\ m.generated /\ m.code = 0) => m.printed
        /\ ~input.no_save =>
            /\ ~m.printed
            /\ m.saves <= 1
            /\ m.saves = 1 => m.generated
            /\ (output.done /\ m.generated /\ m.code = 0) =>
                  /\ m.saves = 1
                  /\ m.files = {save_path(input.output)}
        /\ ~m.generated => (m.saves = 0 /\ m.files = {} /\ ~m.printed)

\* a finished --no-save run that printed its report
C17_Witness ==
    /\ output.done
    /\ input.no_save
    /\ input.output = Str
    /\ output.val.generated
    /\ output.val.printed
    /\ output.val.saves = 0
    /\ output.val.code = 0

(***************************************************************************)
(* The two dicts of the cache (under Spec).                                *)
(***************************************************************************)
\* C21: in every reachable state of a DataFetcher, cache and cache_time have
\* the same key set: every cached value has a timestamp and every timestamp
\* belongs to a cached value.
C21_SameKeys ==
    /\ DOMAIN cache = DOMAIN cache_time
    /\ \A key \in DOMAIN cache : cache[key] # None
    /\ \A key \in DOMAIN cache_time : cache_time[key] \in 0..now

\* the three kinds of entry stored, not all at the same time
C21_Witness ==
    /\ DOMAIN cache = {StockKey("NVDA"), IndexKey("^VIX"), FearGreedKey}
    /\ DOMAIN cache_time = DOMAIN cache
    /\ cache_time[StockKey("NVDA")] # cache_time[IndexKey("^VIX")]

(***************************************************************************)
(* The two places of the report that name the sentiment: the market        *)
(* overview prints the level of the reading, the summary derives a level   *)
(* from the score of the reading (report_generator.py).  `input` is the    *)
(* score the sentiment provider answers.                                   *)
(***************************************************************************)
\* _build_market_overview lines 181-183: level = fear_greed.get('level')
overview_level(fear_greed) == fear_greed.level

\* _build_summary lines 417-428: the level named for the reading's score
summary_level(fear_greed) ==
    LET score == fear_greed.score
    IN  IF RLess(Num(75), score) THEN "extreme_greed"
        ELSE IF RLess(Num(55), score) THEN "greed"
        ELSE IF RLess(Num(45), score) THEN "neutral"
        ELSE IF RLess(Num(25), score) THEN "fear"
        ELSE "extreme_fear"

InitSummary ==
    /\ Constructed
    /\ input \in Scores
    /\ output = Pending

\* generate_report line 45: fear_greed = self.fetcher.get_fear_greed_index()
SummaryFetch ==
    /\ ~output.done
    /\ ret = NoRet
    /\ LET resp == [raises |-> FALSE, shape |-> "nested", score |-> input]
           e == get_fear_greed_index(cache, cache_time, now, resp)
       IN  /\ cache' = e.cache
           /\ cache_time' = e.cache_time
           /\ ret' = e.ret
    /\ UNCHANGED <<now, last, batch, input, output>>

\* _build_report: the overview and the summary are built from the reading
SummaryBuild ==
    /\ ~output.done
    /\ ret.val # None
    /\ output' = [done |-> TRUE,
                  val |-> [overview |-> overview_level(ret.val),
                           summary |-> summary_level(ret.val)]]
    /\ UNCHANGED <<now, cache, cache_time, ret, last, batch, input>>

NextSummary == SummaryFetch \/ SummaryBuild

SpecSummary == InitSummary /\ [][NextSummary]_vars

\* C23: for every sentiment score, the level named in the report's summary is
\* the level the reading carries (computed by _interpret_fear_greed and shown
\* in the market overview), the scores 25, 45, 55 and 75 included.
C23_SameLevel ==
    output.done =>
        /\ output.val.overview = _interpret_fear_greed(input)
        /\ output.val.summary = output.val.overview

(***************************************************************************)
(* Further properties of the program run (under SpecMain).                 *)
(***************************************************************************)
\* C22: generate_report returns a report for every combination of per-symbol
\* fetch outcomes, stock Quotes whose change_pct is None included: a run
\* that has made all its fetches and is not interrupted gets its report.
C22_ReportAlwaysBuilt ==
    /\ output.val.error # "TypeError"
    /\ (output.done /\ output.val.vix_at >= 0
          /\ output.val.error # "KeyboardInterrupt") => output.val.generated

====
